---- MODULE Spec2Model ----
(***************************************************************************)
(* Backtest simulation and performance analytics of cta_algo:              *)
(* Backtester.run_backtest (backtest.py) and Analyzer (analyzer.py).       *)
(*                                                                         *)
(* A pandas column is a sequence of floats.  A float is modelled exactly:  *)
(* a record [n, d] with d >= 0 stands for the rational n/d when d > 0, for *)
(* +inf / -inf when d = 0 and n = 1 / -1, and for NaN when n = d = 0.      *)
(* Arithmetic is exact rational arithmetic with the IEEE rules for NaN and *)
(* the infinities; binary rounding error and the sign of zero are not      *)
(* represented.  Sequences are 1-based: bar t of the source is index t+1.  *)
(***************************************************************************)
EXTENDS Integers, Sequences, FiniteSets, TLC

\* ------------------------------------------------------------------ bounds
\* The longest series StrategyV2 is run on.
MaxV2Len == 3

\* The largest stop of a (start, stop, step) range.
MaxStop == 4

\* The longest series of bars, and the longest series that carries its own
\* pnl column.
MaxLen == 3

MaxLedgerLen == 4

\* ------------------------------------------------------------------ floats
Abs(i) == IF i < 0 THEN -i ELSE i

Sign(i) == IF i < 0 THEN -1 ELSE IF i > 0 THEN 1 ELSE 0

RECURSIVE GCD(_, _)
GCD(a, b) == IF b = 0 THEN a ELSE GCD(b, a % b)

\* n/d in lowest terms; d = 0 gives NaN (n = 0) or a signed infinity.
Norm(n, d) ==
    IF d = 0 THEN [n |-> Sign(n), d |-> 0]
    ELSE LET s == IF d < 0 THEN -1 ELSE 1
             g == GCD(Abs(n), Abs(d))
         IN  [n |-> (s * n) \div g, d |-> (s * d) \div g]

NaN == [n |-> 0, d |-> 0]
Inf == [n |-> 1, d |-> 0]
F(i) == [n |-> i, d |-> 1]
Zero == F(0)
One == F(1)

IsNaN(x) == x.d = 0 /\ x.n = 0
IsInf(x) == x.d = 0 /\ x.n # 0
IsNum(x) == x.d > 0

FAdd(x, y) ==
    IF IsNaN(x) \/ IsNaN(y) THEN NaN
    ELSE IF IsInf(x) THEN (IF IsInf(y) /\ y.n # x.n THEN NaN ELSE x)
    ELSE IF IsInf(y) THEN y
    ELSE Norm(x.n * y.d + y.n * x.d, x.d * y.d)

FNeg(x) == [n |-> -x.n, d |-> x.d]

FSub(x, y) == FAdd(x, FNeg(y))

\* inf * 0 and NaN * x come out as 0/0 = NaN.
FMul(x, y) == Norm(x.n * y.n, x.d * y.d)

\* 1 / y: 1 / 0 is +inf (the sign of zero is not represented), 1 / inf is 0.
FRecip(y) ==
    IF y.n = 0 THEN (IF y.d = 0 THEN NaN ELSE Inf)
    ELSE Norm(y.d * Sign(y.n), Abs(y.n))

\* x / 0 is a signed infinity, 0 / 0 and inf / inf are NaN.
FDiv(x, y) == FMul(x, FRecip(y))

FAbs(x) == [n |-> Abs(x.n), d |-> x.d]

\* Comparisons: every comparison with NaN is False.
FLt(x, y) ==
    /\ ~IsNaN(x)
    /\ ~IsNaN(y)
    /\ IF x.d = 0 /\ y.d = 0 THEN x.n < y.n ELSE x.n * y.d < y.n * x.d

FEq(x, y) == ~IsNaN(x) /\ ~IsNaN(y) /\ x = y

FLe(x, y) == FLt(x, y) \/ FEq(x, y)

FGt(x, y) == FLt(y, x)

FGe(x, y) == FLe(y, x)

FNe(x, y) == ~FEq(x, y)

\* 10^k for the numbers of decimals the program rounds to (1, 2 and 3).
Pow10(k) == IF k = 1 THEN 10 ELSE IF k = 2 THEN 100 ELSE 1000

\* The integer nearest to n/d (d > 0), ties to the even one.
RoundHalfEven(n, d) ==
    LET q == n \div d
        r == n % d
    IN  IF 2 * r < d THEN q
        ELSE IF 2 * r > d THEN q + 1
        ELSE IF q % 2 = 0 THEN q ELSE q + 1

\* whole + rest/d rounded to k >= 1 decimals, 0 <= rest < d: only the
\* fraction is scaled (10^k is even, so the tie rule is that of the sum).
RoundParts(whole, rest, d, k) ==
    Norm(whole * Pow10(k) + RoundHalfEven(rest * Pow10(k), d), Pow10(k))

\* round(x, k) of a float: NaN and the infinities are returned unchanged.
Round(x, k) ==
    IF x.d = 0 THEN x ELSE RoundParts(x.n \div x.d, x.n % x.d, x.d, k)

\* ------------------------------------------------------------------ columns
Idx(s) == 1..Len(s)

\* The column of the integers of a sequence.
FSeq(s) == [i \in Idx(s) |-> F(s[i])]

\* Series.fillna(v)
FillNa(s, v) == [i \in Idx(s) |-> IF IsNaN(s[i]) THEN v ELSE s[i]]

\* Series.dropna()
DropNa(s) == SelectSeq(s, LAMBDA x : ~IsNaN(x))

\* Series.shift(1): the first row becomes NaN.
Shift1(s) == [i \in Idx(s) |-> IF i = 1 THEN NaN ELSE s[i - 1]]

\* Series.pct_change(): s / s.shift(1) - 1, NaN in the first row.
PctChange(s) == [i \in Idx(s) |-> FSub(FDiv(s[i], Shift1(s)[i]), One)]

\* Series.diff(): s - s.shift(1), NaN in the first row.
Diff(s) == [i \in Idx(s) |-> FSub(s[i], Shift1(s)[i])]

SMul(a, b) == [i \in Idx(a) |-> FMul(a[i], b[i])]

SAddConst(c, a) == [i \in Idx(a) |-> FAdd(c, a[i])]

\* pandas' cumulative functions skip NaN: a NaN row takes no part in the
\* accumulation and stays NaN in the result.
RECURSIVE SumTo(_, _)
SumTo(s, k) ==
    IF k = 0 THEN Zero
    ELSE FAdd(SumTo(s, k - 1), IF IsNaN(s[k]) THEN Zero ELSE s[k])

RECURSIVE ProdTo(_, _)
ProdTo(s, k) ==
    IF k = 0 THEN One
    ELSE FMul(ProdTo(s, k - 1), IF IsNaN(s[k]) THEN One ELSE s[k])

FMax(x, y) == IF FLt(x, y) THEN y ELSE x

RECURSIVE MaxTo(_, _)
MaxTo(s, k) ==
    IF k = 0 THEN FNeg(Inf)
    ELSE FMax(MaxTo(s, k - 1), IF IsNaN(s[k]) THEN FNeg(Inf) ELSE s[k])

CumSum(s) == [i \in Idx(s) |-> IF IsNaN(s[i]) THEN NaN ELSE SumTo(s, i)]

CumProd(s) == [i \in Idx(s) |-> IF IsNaN(s[i]) THEN NaN ELSE ProdTo(s, i)]

CumMax(s) == [i \in Idx(s) |-> IF IsNaN(s[i]) THEN NaN ELSE MaxTo(s, i)]

\* Series.min(): the least non-NaN value, NaN when there is none.
SMin(s) ==
    LET v == DropNa(s)
    IN  IF Len(v) = 0 THEN NaN
        ELSE v[CHOOSE i \in Idx(v) : \A j \in Idx(v) : FLe(v[i], v[j])]

\* Series.idxmin(): the first row holding the least non-NaN value; 0 when
\* every row is NaN.
IdxMin(s) ==
    LET ok == {i \in Idx(s) : ~IsNaN(s[i])}
        best == {i \in ok : \A j \in ok : FLe(s[i], s[j])}
    IN  IF ok = {} THEN 0 ELSE CHOOSE i \in best : \A j \in best : i <= j

\* Series.mean() of a series without NaN (mean skips NaN): NaN when empty.
MeanOf(v) == IF Len(v) = 0 THEN NaN ELSE FDiv(SumTo(v, Len(v)), F(Len(v)))

Mean(s) == MeanOf(DropNa(s))

SquaredDeviation(x, m) == FMul(FSub(x, m), FSub(x, m))

\* The sample variance (ddof = 1) of a series v without NaN whose mean is m:
\* NaN for fewer than two values.
VarOf(v, m) ==
    IF Len(v) < 2 THEN NaN
    ELSE FDiv(SumTo([i \in Idx(v) |-> SquaredDeviation(v[i], m)], Len(v)),
              F(Len(v) - 1))

\* The square of Series.std() (std skips NaN, ddof = 1).  std() is 0, NaN
\* or positive exactly when this is.
Var(s) == VarOf(DropNa(s), Mean(s))

\* ------------------------------------------------------------------ frames
\* A DataFrame: the set of its column names, its number of rows, and its
\* columns (the empty sequence for a column it does not have).  timestamp
\* is in hours; the other columns hold floats.
Columns == {"timestamp", "close", "position", "transaction_costs", "returns", "pnl",
           "cumulative_pnl",
            "equity_curve", "running_max", "drawdown"}

NoColumns == [c \in Columns |-> <<>>]

\* df[c] = s; the column is stored as the tuple of its values.
SetCol(df, c, s) ==
    [df EXCEPT !.cols = @ \cup {c}, !.col = [@ EXCEPT ![c] = s \o <<>>]]

\* df['returns'] = df['close'].pct_change().fillna(0)
WithReturns(df) == SetCol(df, "returns", FillNa(PctChange(df.col["close"]), Zero))

\* A variant of WithPnl without the lag: position[t] * returns[t].
WithPnlUnlagged(df) ==
    SetCol(df, "pnl", SMul(df.col["position"], df.col["returns"]))

\* df['pnl'] = df['position'].shift(1) * df['returns']
WithPnl(df) ==
    SetCol(df, "pnl", SMul(Shift1(df.col["position"]), df.col["returns"]))

\* df['cumulative_pnl'] = df['pnl'].cumsum()
WithCumulativePnl(df) == SetCol(df, "cumulative_pnl", CumSum(df.col["pnl"]))

\* df['equity_curve'] = (1 + df['pnl']).cumprod()
WithEquityCurve(df) ==
    SetCol(df, "equity_curve", CumProd(SAddConst(One, df.col["pnl"])))

\* df['running_max'] = df['equity_curve'].cummax()
WithRunningMax(df) == SetCol(df, "running_max", CumMax(df.col["equity_curve"]))

RelativeDecline(eq, rm) == FDiv(FSub(eq, rm), rm)

\* df['drawdown'] = (df['equity_curve'] - df['running_max']) / df['running_max']
WithDrawdown(df) ==
    SetCol(df, "drawdown",
           [i \in 1..df.n |-> RelativeDecline(df.col["equity_curve"][i],
                                              df.col["running_max"][i])])

\* Backtester.run_backtest, lines 12-24: the frame df_test it builds.
BacktestFrame(df) ==
    WithDrawdown(WithRunningMax(WithEquityCurve(WithCumulativePnl(
        WithPnl(WithReturns(df))))))

\* A variant of AfterCopy where the callee works on the caller's frame itself.
AfterCopyAliased(caller, copy) == copy

\* df_test = df.copy() (run_backtest, line 12): the caller's frame after the
\* callee has assigned columns to its copy.
AfterCopy(caller, copy) == caller

\* df = df.copy() (_prepare_data, line 176), likewise.
AfterPrepareCopy(caller, copy) == caller

\* Backtester.run_backtest raises KeyError on df_test['close'] (line 15) or
\* df_test['position'] (line 18) when the frame lacks the column.
RunBacktestRaises(d) == "close" \notin d.cols \/ "position" \notin d.cols

ReturnsIfAbsent(df) == IF "returns" \in df.cols THEN df ELSE WithReturns(df)

PnlIfAbsent(df) == IF "pnl" \in df.cols THEN df ELSE WithPnl(df)

EquityCurveIfAbsent(df) ==
    IF "equity_curve" \in df.cols THEN df ELSE WithEquityCurve(df)

DrawdownIfAbsent(df) ==
    IF "drawdown" \in df.cols THEN df ELSE WithDrawdown(WithRunningMax(df))

\* Analyzer._prepare_data: each derived column is added only when absent.
PrepareData(df) ==
    DrawdownIfAbsent(EquityCurveIfAbsent(PnlIfAbsent(ReturnsIfAbsent(df))))

\* ------------------------------------------------------------------ trades
\* A variant of EntryPnl that counts the entry bar's pnl in the trade.
EntryPnlCounted(pnl, i) == pnl[i]

\* Analyzer._extract_trade_pnls, line 207: current_trade_pnl on entering a
\* trade at row i.
EntryPnl(pnl, i) == Zero

\* A variant of InPosition that holds only while the position stays on the
\* side of the bar before: a reversal is not a bar in position.
InPositionSameSide(position, i) ==
    /\ FNe(position[i], Zero)
    /\ i = 1 \/ Sign(position[i].n) * Sign(position[i - 1].n) >= 0

\* Analyzer._extract_trade_pnls, lines 204 and 208: pos != 0 at row i.
InPosition(position, i) == FNe(position[i], Zero)

\* Analyzer._extract_trade_pnls: the loop from row i on, with the loop's
\* in_trade and current_trade_pnl and the list built so far.
RECURSIVE ExtractFrom(_, _, _, _, _, _)
ExtractFrom(position, pnl, i, in_trade, current_trade_pnl, trade_pnls) ==
    IF i > Len(position) THEN trade_pnls
    ELSE IF InPosition(position, i) /\ ~in_trade
         THEN ExtractFrom(position, pnl, i + 1, TRUE, EntryPnl(pnl, i), trade_pnls)
    ELSE IF InPosition(position, i) /\ in_trade
         THEN ExtractFrom(position, pnl, i + 1, TRUE,
                          FAdd(current_trade_pnl, pnl[i]), trade_pnls)
    ELSE IF FEq(position[i], Zero) /\ in_trade
         THEN ExtractFrom(position, pnl, i + 1, FALSE, Zero,
                          Append(trade_pnls, FAdd(current_trade_pnl, pnl[i])))
    ELSE ExtractFrom(position, pnl, i + 1, in_trade, current_trade_pnl, trade_pnls)

ExtractTradePnls(df) ==
    ExtractFrom(df.col["position"], df.col["pnl"], 1, FALSE, Zero, <<>>)

\* A variant of ClosedDuration that counts the exit bar too.
ClosedDurationWithExitBar(current_duration) == current_duration + 1

\* Analyzer.calculate_avg_trade_duration, line 304: the duration appended
\* when a trade closes.
ClosedDuration(current_duration) == current_duration

\* A variant of DurationsAtEnd that drops a trade still open at the end.
DurationsAtEndClosedOnly(in_trade, current_duration, trade_durations) ==
    trade_durations

\* Analyzer.calculate_avg_trade_duration, lines 308-310: a trade still open
\* after the last row is appended too.
DurationsAtEnd(in_trade, current_duration, trade_durations) ==
    IF in_trade THEN Append(trade_durations, current_duration)
    ELSE trade_durations

\* Analyzer.calculate_avg_trade_duration, lines 290-310: the list
\* trade_durations, built by the loop from row i on.
RECURSIVE DurationsFrom(_, _, _, _, _)
DurationsFrom(position, i, in_trade, current_duration, trade_durations) ==
    IF i > Len(position)
    THEN DurationsAtEnd(in_trade, current_duration, trade_durations)
    ELSE IF FNe(position[i], Zero) /\ ~in_trade
         THEN DurationsFrom(position, i + 1, TRUE, 1, trade_durations)
    ELSE IF FNe(position[i], Zero) /\ in_trade
         THEN DurationsFrom(position, i + 1, TRUE, current_duration + 1,
                            trade_durations)
    ELSE IF FEq(position[i], Zero) /\ in_trade
         THEN DurationsFrom(position, i + 1, FALSE, 0,
                            Append(trade_durations,
                                   ClosedDuration(current_duration)))
    ELSE DurationsFrom(position, i + 1, in_trade, current_duration,
                       trade_durations)

TradeDurations(df) == DurationsFrom(df.col["position"], 1, FALSE, 0, <<>>)

\* ------------------------------------------------------------------ metrics
Last(s) == s[Len(s)]

\* Analyzer.calculate_total_return
CalculateTotalReturn(df0) ==
    LET df == IF "equity_curve" \in df0.cols THEN df0 ELSE PrepareData(df0)
    IN  IF df.n = 0 THEN Zero
        ELSE Round(FMul(FSub(Last(df.col["equity_curve"]), One), F(100)), 2)

\* Analyzer.calculate_annual_return
CalculateAnnualReturn(pnl_series) ==
    IF Len(pnl_series) = 0 THEN Zero
    ELSE Round(FMul(FMul(Mean(pnl_series), F(365)), F(100)), 2)

\* mean / std * sqrt(365) is irrational in general; it is kept as its signed
\* square, sign(mean) * mean^2 / std^2 * 365, which is NaN, zero, negative or
\* positive exactly when the ratio is, and orders as the ratio does.  The
\* ratio's rounding to 3 decimals is not represented.
AnnualisedRatio(mean, variance) ==
    FMul(FMul(F(Sign(mean.n)), FDiv(FMul(mean, mean), variance)), F(365))

\* Analyzer.calculate_sharpe_ratio
CalculateSharpeRatio(pnl_series) ==
    IF Len(pnl_series) = 0 \/ FEq(Var(pnl_series), Zero) THEN Zero
    ELSE AnnualisedRatio(Mean(pnl_series), Var(pnl_series))

\* Analyzer.calculate_max_drawdown
CalculateMaxDrawdown(df0) ==
    LET df == IF "drawdown" \in df0.cols THEN df0 ELSE PrepareData(df0)
    IN  IF df.n = 0 THEN Zero
        ELSE Round(FAbs(FMul(SMin(df.col["drawdown"]), F(100))), 2)

\* A variant of CalculateCalmarRatio without the test of the drawdown.
CalculateCalmarRatioUnguarded(pnl_series, df) ==
    Round(FDiv(CalculateAnnualReturn(pnl_series), CalculateMaxDrawdown(df)), 3)

\* Analyzer.calculate_calmar_ratio
CalculateCalmarRatio(pnl_series, df) ==
    LET annual_return == CalculateAnnualReturn(pnl_series)
        max_drawdown == CalculateMaxDrawdown(df)
    IN  IF FEq(max_drawdown, Zero) \/ FLt(max_drawdown, Norm(1, 100))
        THEN (IF FGt(annual_return, Zero) THEN Inf ELSE Zero)
        ELSE Round(FDiv(annual_return, max_drawdown), 3)

\* A variant of CalculateTotalTrades without the fillna(0): the first bar's
\* NaN difference is != 0 and is counted.
CalculateTotalTradesUnfilled(df) ==
    IF "position" \notin df.cols THEN Zero
    ELSE LET position_changes == Diff(df.col["position"])
         IN  F(Cardinality({i \in Idx(position_changes) :
                                FNe(position_changes[i], Zero)}))

\* Analyzer.calculate_total_trades
CalculateTotalTrades(df) ==
    IF "position" \notin df.cols THEN Zero
    ELSE LET position_changes == FillNa(Diff(df.col["position"]), Zero)
         IN  F(Cardinality({i \in Idx(position_changes) :
                                FNe(position_changes[i], Zero)}))

\* Analyzer.calculate_win_rate
CalculateWinRate(df) ==
    IF "position" \notin df.cols \/ "pnl" \notin df.cols THEN Zero
    ELSE LET trade_pnls == ExtractTradePnls(df)
             wins == Cardinality({i \in Idx(trade_pnls) : FGt(trade_pnls[i], Zero)})
         IN  IF Len(trade_pnls) = 0 THEN Zero
             ELSE Round(FMul(Norm(wins, Len(trade_pnls)), F(100)), 2)

\* Analyzer.calculate_sortino_ratio
CalculateSortinoRatio(pnl_series) ==
    LET downside_returns == SelectSeq(pnl_series, LAMBDA x : FLt(x, Zero))
    IN  IF Len(pnl_series) = 0 THEN Zero
        ELSE IF Len(downside_returns) = 0 THEN Zero
        ELSE IF FEq(Var(downside_returns), Zero) THEN Zero
        ELSE AnnualisedRatio(Mean(pnl_series), Var(downside_returns))

\* sum([p for p in trade_pnls if keep(p)])
SumWhere(s, keep(_)) == LET v == SelectSeq(s, keep) IN SumTo(v, Len(v))

\* A variant of CalculateProfitFactor that divides by the signed gross loss.
CalculateProfitFactorSigned(df) ==
    LET trade_pnls == ExtractTradePnls(df)
        gross_profit == SumWhere(trade_pnls, LAMBDA x : FGt(x, Zero))
        gross_loss == SumWhere(trade_pnls, LAMBDA x : FLt(x, Zero))
    IN  IF Len(trade_pnls) = 0 THEN Zero
        ELSE IF FEq(gross_loss, Zero)
             THEN (IF FGt(gross_profit, Zero) THEN Inf ELSE Zero)
        ELSE Round(FDiv(gross_profit, gross_loss), 2)

\* Analyzer.calculate_profit_factor
CalculateProfitFactor(df) ==
    LET trade_pnls == ExtractTradePnls(df)
        gross_profit == SumWhere(trade_pnls, LAMBDA x : FGt(x, Zero))
        gross_loss == FAbs(SumWhere(trade_pnls, LAMBDA x : FLt(x, Zero)))
    IN  IF Len(trade_pnls) = 0 THEN Zero
        ELSE IF FEq(gross_loss, Zero)
             THEN (IF FGt(gross_profit, Zero) THEN Inf ELSE Zero)
        ELSE Round(FDiv(gross_profit, gross_loss), 2)

\* Analyzer.calculate_time_in_market
CalculateTimeInMarket(df) ==
    IF "position" \notin df.cols THEN Zero
    ELSE LET invested_periods ==
                 Cardinality({i \in 1..df.n : FNe(df.col["position"][i], Zero)})
         IN  IF df.n = 0 THEN Zero
             ELSE Round(FMul(Norm(invested_periods, df.n), F(100)), 2)

RECURSIVE IntSum(_, _)
IntSum(s, k) == IF k = 0 THEN 0 ELSE IntSum(s, k - 1) + s[k]

\* Analyzer.calculate_avg_trade_duration
CalculateAvgTradeDuration(df) ==
    IF "position" \notin df.cols THEN Zero
    ELSE LET trade_durations == TradeDurations(df)
         IN  IF Len(trade_durations) = 0 THEN Zero
             ELSE Round(Norm(IntSum(trade_durations, Len(trade_durations)),
                             Len(trade_durations)), 1)

\* Analyzer.calculate_max_consecutive_losses, lines 325-333: the loop from
\* trade i on.
RECURSIVE ConsecutiveFrom(_, _, _, _)
ConsecutiveFrom(trade_pnls, i, max_consecutive, current_consecutive) ==
    IF i > Len(trade_pnls) THEN max_consecutive
    ELSE IF FLt(trade_pnls[i], Zero)
         THEN ConsecutiveFrom(trade_pnls, i + 1,
                              IF current_consecutive + 1 > max_consecutive
                              THEN current_consecutive + 1 ELSE max_consecutive,
                              current_consecutive + 1)
    ELSE ConsecutiveFrom(trade_pnls, i + 1, max_consecutive, 0)

\* Analyzer.calculate_max_consecutive_losses
CalculateMaxConsecutiveLosses(df) ==
    F(ConsecutiveFrom(ExtractTradePnls(df), 1, 0, 0))

\* What Series.idxmin() does on a column that is NaN in every row depends on
\* the installed pandas: it raises ValueError (pandas 3), or it returns NaN
\* (pandas 2), and then df.loc[NaN:] is the empty slice.
VARIABLE idxmin_raises

\* Analyzer.calculate_recovery_time raises where idxmin() does: on a drawdown
\* column with no row (every pandas), or with NaN in every row (pandas 3).
RecoveryTimeRaises(df) ==
    /\ "drawdown" \in df.cols
    /\ "timestamp" \in df.cols
    /\ IdxMin(df.col["drawdown"]) = 0
    /\ df.n = 0 \/ idxmin_raises

\* The rows of df.loc[max_dd_idx:] with drawdown >= -0.001; max_dd_idx = 0
\* stands for the NaN label.
RecoveryIdx(dd, max_dd_idx) ==
    IF max_dd_idx = 0 THEN {}
    ELSE {i \in max_dd_idx..Len(dd) : FGe(dd[i], Norm(-1, 1000))}

\* Analyzer.calculate_recovery_time, where it does not raise.  (b - a).days
\* is the whole number of days in the hours between two timestamps.
CalculateRecoveryTime(df) ==
    IF "drawdown" \notin df.cols \/ "timestamp" \notin df.cols THEN Zero
    ELSE LET dd == df.col["drawdown"]
             ts == df.col["timestamp"]
             max_dd_idx == IdxMin(dd)
             recovery_idx == RecoveryIdx(dd, max_dd_idx)
             first == CHOOSE i \in recovery_idx : \A j \in recovery_idx : i <= j
             recovery_days == (ts[first] - ts[max_dd_idx]) \div 24
         IN  IF recovery_idx = {} THEN Inf
             ELSE F(IF recovery_days > 0 THEN recovery_days ELSE 0)

MetricNames == {"total_return", "annual_return", "sharpe", "max_drawdown",
                "calmar", "total_trades", "win_rate", "sortino", "profit_factor",
                "time_in_market", "avg_trade_duration", "max_consecutive_losses",
                "recovery_time"}

\* Analyzer._get_empty_metrics
GetEmptyMetrics == [k \in MetricNames |-> Zero]

\* Analyzer._prepare_data raises KeyError when it has to derive a column
\* from one the frame does not have.
PrepareDataRaises(df) ==
    \/ "returns" \notin df.cols /\ "close" \notin df.cols
    \/ "pnl" \notin df.cols /\ "position" \notin df.cols

\* The metric calls of calculate_all_metrics, lines 21-35, that raise:
\* calculate_total_return and calculate_max_drawdown through _prepare_data,
\* calculate_profit_factor through df['position'] in _extract_trade_pnls,
\* calculate_recovery_time through idxmin.
MetricCallRaises(df) ==
    \/ ("equity_curve" \notin df.cols \/ "drawdown" \notin df.cols)
           /\ PrepareDataRaises(df)
    \/ "position" \notin df.cols
    \/ RecoveryTimeRaises(IF "drawdown" \in df.cols THEN df ELSE PrepareData(df))

\* A variant of Degenerate that tests only for an empty series.
DegenerateOnlyWhenEmpty(pnl_series) == Len(pnl_series) = 0

\* Analyzer.calculate_all_metrics, line 17: the test for the default record.
Degenerate(pnl_series) ==
    Len(pnl_series) = 0 \/ FEq(Var(pnl_series), Zero)

\* Analyzer.calculate_all_metrics: what the call does ("return" or "raise")
\* and the record it returns.
CalculateAllMetrics(df0) ==
    LET df == IF "pnl" \in df0.cols THEN df0 ELSE PrepareData(df0)
        pnl_series == DropNa(df.col["pnl"])
    IN  IF "pnl" \notin df0.cols /\ PrepareDataRaises(df0)
        THEN [outcome |-> "raise", metrics |-> GetEmptyMetrics]
        ELSE IF Degenerate(pnl_series)
        THEN [outcome |-> "return", metrics |-> GetEmptyMetrics]
        ELSE IF MetricCallRaises(df)
        THEN [outcome |-> "raise", metrics |-> GetEmptyMetrics]
        ELSE [outcome |-> "return",
              metrics |->
                 [total_return |-> CalculateTotalReturn(df),
                  annual_return |-> CalculateAnnualReturn(pnl_series),
                  sharpe |-> CalculateSharpeRatio(pnl_series),
                  max_drawdown |-> CalculateMaxDrawdown(df),
                  calmar |-> CalculateCalmarRatio(pnl_series, df),
                  total_trades |-> CalculateTotalTrades(df),
                  win_rate |-> CalculateWinRate(df),
                  sortino |-> CalculateSortinoRatio(pnl_series),
                  profit_factor |-> CalculateProfitFactor(df),
                  time_in_market |-> CalculateTimeInMarket(df),
                  avg_trade_duration |-> CalculateAvgTradeDuration(df),
                  max_consecutive_losses |-> CalculateMaxConsecutiveLosses(df),
                  recovery_time |-> CalculateRecoveryTime(df)]]

\* ------------------------------------------------------------------ optimizer
\* A parameter grid (param_ranges) is the sequence of the dict's items in
\* insertion order; an item is [name, range], and a range is a
\* (start, stop, step) tuple, a list of values or a single value.
RangeOf(start, stop, step) ==
    [kind |-> "range", start |-> start, stop |-> stop, step |-> step]

ListOf(values) == [kind |-> "list", values |-> values]

SingleOf(value) == [kind |-> "single", value |-> value]

\* The least integer that is not less than the number x.
Ceil(x) == -((-x.n) \div x.d)

\* np.arange(start, stop, step) for step > 0: the values start + k * step
\* for k = 0 .. ceil((stop - start) / step) - 1.
Arange(start, stop, step) ==
    LET len == Ceil(FDiv(FSub(stop, start), step))
    IN  [k \in 1..(IF len > 0 THEN len ELSE 0) |-> FAdd(start, FMul(F(k - 1), step))]

\* Optimizer._generate_param_combinations, lines 77-86: the list of values
\* of one parameter.
ParamList(param_range) ==
    IF param_range.kind = "range"
    THEN Arange(param_range.start, FAdd(param_range.stop, param_range.step),
                param_range.step)
    ELSE IF param_range.kind = "list" THEN param_range.values
    ELSE <<param_range.value>>

\* The concatenation of the sequences of a sequence.
RECURSIVE Flatten(_)
Flatten(ss) == IF ss = <<>> THEN <<>> ELSE Head(ss) \o Flatten(Tail(ss))

\* itertools.product(*param_values) zipped with param_names, lines 89-94:
\* the first parameter varies slowest.
RECURSIVE CombinationsOf(_)
CombinationsOf(items) ==
    IF items = <<>> THEN << <<>> >>
    ELSE LET values == ParamList(Head(items).range)
             rest == CombinationsOf(Tail(items))
         IN  Flatten([v \in Idx(values) |->
                        [r \in Idx(rest) |->
                            <<[name |-> Head(items).name, value |-> values[v]]>>
                                \o rest[r]]])

\* dict(zip(param_names, combo)): the dict of one combination.
DictOf(pairs) ==
    [k \in {pairs[j].name : j \in Idx(pairs)} |->
        pairs[CHOOSE j \in Idx(pairs) :
                 /\ pairs[j].name = k
                 /\ \A j2 \in Idx(pairs) : pairs[j2].name = k => j2 <= j].value]

\* Optimizer._generate_param_combinations
GenerateParamCombinations(param_ranges) ==
    LET combos == CombinationsOf(param_ranges)
    IN  [c \in Idx(combos) |-> DictOf(combos[c])]

\* A variant of AfterSignalsCopy where generate_signals works on self.data.
AfterSignalsCopyAliased(data, copy) == copy

\* df = self.data.copy() (generate_signals, line 44): the strategy's data
\* after generate_signals has assigned columns to its copy.
AfterSignalsCopy(data, copy) == data

\* strategy.generate_signals(window=..., threshold=...): a copy of the
\* strategy's data with the position column of the signal; the strategy is
\* the Optimizer's input, and which bars it signals at which parameters
\* (strategy.signals) is part of that input: at each combination it raises
\* or gives a position series.
GenerateSignalsRaises(strategy, window, threshold) ==
    strategy.signals[<<window, threshold>>].raises

\* Line 62 of strategy_v2.py: position_size where the long signal holds, 0.0
\* elsewhere.
PositionOf(long_signal, position_size) ==
    [i \in Idx(long_signal) |-> IF long_signal[i] = 1 THEN position_size ELSE Zero]

GenerateSignals(strategy, window, threshold) ==
    SetCol(strategy.data, "position",
           PositionOf(strategy.signals[<<window, threshold>>].position,
                      strategy.position_size))

\* A variant of CalculateTransactionCosts that charges the cost on the
\* position held, not on its change.
CalculateTransactionCostsOnHolding(strategy, df) ==
    [i \in Idx(df.col["position"]) |->
        FMul(FAbs(df.col["position"][i]), strategy.transaction_cost)]

\* StrategyV2.calculate_transaction_costs
CalculateTransactionCosts(strategy, df) ==
    LET position_changes ==
            FillNa([i \in Idx(df.col["position"]) |->
                       FAbs(Diff(df.col["position"])[i])], Zero)
    IN  [i \in Idx(position_changes) |->
            FMul(position_changes[i], strategy.transaction_cost)]

\* StrategyV2.backtest, line 85
WithTransactionCosts(strategy, df_signals) ==
    SetCol(df_signals, "transaction_costs",
           CalculateTransactionCosts(strategy, df_signals))

\* StrategyV2._run_backtest_with_costs, lines 103-105
WithNetPnl(df) ==
    SetCol(df, "pnl",
           [i \in Idx(df.col["position"]) |->
               FSub(FMul(Shift1(df.col["position"])[i], df.col["returns"][i]),
                    df.col["transaction_costs"][i])])

\* StrategyV2._run_backtest_with_costs, lines 97-113: df_test
BacktestFrameWithCosts(df) ==
    WithDrawdown(WithRunningMax(WithEquityCurve(WithCumulativePnl(
        WithNetPnl(WithReturns(df))))))

\* StrategyV2.backtest, lines 82-88: the frame _run_backtest_with_costs
\* builds from the signals at (window, threshold).
V2BacktestFrame(strategy, window, threshold) ==
    BacktestFrameWithCosts(
        WithTransactionCosts(strategy, GenerateSignals(strategy, window, threshold)))

\* A variant of EvaluationFrame that evaluates a combination as
\* StrategyV2.backtest does, on the net pnl.
EvaluationFrameWithCosts(strategy, window, threshold) ==
    V2BacktestFrame(strategy, window, threshold)

\* Optimizer.optimize_parameters, lines 36-47: the frame a combination is
\* evaluated on, backtester.run_backtest(strategy.generate_signals(...)).
EvaluationFrame(strategy, window, threshold) ==
    BacktestFrame(GenerateSignals(strategy, window, threshold))

\* Optimizer.optimize_parameters, lines 36-59: the body of the loop for one
\* combination raises inside the try, and the combination is skipped.
CombinationRaises(strategy, params) ==
    \/ ~({"window", "threshold"} \subseteq DOMAIN params)
    \/ GenerateSignalsRaises(strategy, params["window"], params["threshold"])
    \/ RunBacktestRaises(GenerateSignals(strategy, params["window"], params["threshold"]))
    \/ CalculateAllMetrics(
           EvaluationFrame(strategy, params["window"],
                           params["threshold"])).outcome = "raise"

\* Optimizer.optimize_parameters, lines 50-54: the row of one combination.
ResultRow(strategy, params) ==
    [window |-> params["window"], threshold |-> params["threshold"]]
        @@ CalculateAllMetrics(
               EvaluationFrame(strategy, params["window"],
                               params["threshold"])).metrics

\* sort_values(metric, ascending=False): rows in descending order of the
\* metric, rows whose metric is NaN last.
SortedDescending(table, metric) ==
    \A a \in Idx(table) : \A b \in Idx(table) :
        a < b => \/ IsNaN(table[b][metric])
                 \/ FGe(table[a][metric], table[b][metric])

\* The orders of the rows of a list of results.
Orders(results) ==
    {o \in [Idx(results) -> Idx(results)] :
        \A a \in Idx(results) : \A b \in Idx(results) : o[a] = o[b] => a = b}

\* The tables sort_values may return: it does not say in which order it
\* leaves rows whose metric is equal.
SortValues(results, metric) ==
    {t \in {[k \in Idx(results) |-> results[o[k]]] : o \in Orders(results)} :
        SortedDescending(t, metric)}

\* ------------------------------------------------------------------ trading bot
\* SAFETY_FLAGS, lines 69-76 of hyperliquid_bot.py
FlagNames ==
    {"ignore_longs", "ignore_shorts", "ignore_exits", "ignore_tp", "ignore_sl",
     "dry_run"}

\* STRATEGY_CONFIG: zscore_threshold 2.0 and zscore_exit 0.5
ZScoreThreshold == F(2)

ZScoreExit == Norm(1, 2)

\* ZScoreStrategy.check_long_entry_condition
CheckLongEntryCondition(current_candle, previous_candle) ==
    /\ FLe(previous_candle, ZScoreThreshold)
    /\ FLt(ZScoreThreshold, current_candle)

\* ZScoreStrategy.check_long_exit_condition
CheckLongExitCondition(current_candle, previous_candle) ==
    FLt(current_candle, ZScoreExit)

\* ZScoreStrategy.check_short_entry_condition
CheckShortEntryCondition(current_candle, previous_candle) == FALSE

\* ZScoreStrategy.check_short_exit_condition
CheckShortExitCondition(current_candle, previous_candle) == FALSE

\* A call to the exchange through HyperliquidClient.
Call(op) == [op |-> op, side |-> "none", reduce_only |-> FALSE]

\* client.place_market_order(symbol, side, amount, reduce_only=...)
Order(side, reduce_only) ==
    [op |-> "place_market_order", side |-> side, reduce_only |-> reduce_only]

\* The calls that change the account on the exchange.
StateChanging == {"place_market_order", "set_leverage", "set_margin_mode"}

\* A variant of SetupAccountCalls without the dry_run test.
SetupAccountCallsUnguarded(safety) ==
    <<Call("set_leverage"), Call("set_margin_mode")>>

\* HyperliquidTradingBot.setup_account, lines 124-126: the calls it sets out
\* to make.
SetupAccountCalls(safety) ==
    IF ~safety["dry_run"]
    THEN <<Call("set_leverage"), Call("set_margin_mode")>>
    ELSE <<>>

\* The calls of a list that are made when the call named failing raises:
\* those up to and including the first call of that name.
RECURSIVE MadeUntilFailure(_, _)
MadeUntilFailure(planned, failing) ==
    IF planned = <<>> THEN <<>>
    ELSE IF Head(planned).op = failing THEN <<Head(planned)>>
    ELSE <<Head(planned)>> \o MadeUntilFailure(Tail(planned), failing)

Fails(planned, failing) == \E k \in Idx(planned) : planned[k].op = failing

\* manage_existing_position, line 189: the long exit is looked at.
LongExitChecked(safety, position_side) ==
    /\ position_side = "long"
    /\ ~safety["ignore_longs"]
    /\ ~safety["ignore_exits"]

\* manage_existing_position, line 204: the short exit is looked at.
ShortExitChecked(safety, position_side) ==
    /\ position_side = "short"
    /\ ~safety["ignore_shorts"]
    /\ ~safety["ignore_exits"]

\* manage_existing_position, lines 188-218: the order it sets out to place.
ManageCalls(safety, position_side, current_candle, previous_candle) ==
    IF LongExitChecked(safety, position_side)
    THEN IF CheckLongExitCondition(current_candle, previous_candle)
            /\ ~safety["dry_run"]
         THEN <<Order("sell", TRUE)>>
         ELSE <<>>
    ELSE IF ShortExitChecked(safety, position_side)
    THEN IF CheckShortExitCondition(current_candle, previous_candle)
            /\ ~safety["dry_run"]
         THEN <<Order("buy", TRUE)>>
         ELSE <<>>
    ELSE <<>>

\* _open_long_position line 259 and _open_short_position line 297: the
\* format specification ".2f if tp_price else 'None'" is not a valid one,
\* for a float (ValueError) or for None (TypeError), so the message's
\* f-string raises before the order is placed and the method returns False.
EntryMessageRaises == TRUE

\* _open_long_position / _open_short_position: the order it places.
OpenPositionCalls(safety, side) ==
    IF EntryMessageRaises \/ safety["dry_run"] THEN <<>>
    ELSE <<Order(side, FALSE)>>

\* check_entry_signals, lines 229-239: the order it places.
EntryCalls(safety, current_candle, previous_candle) ==
    IF ~safety["ignore_longs"]
       /\ CheckLongEntryCondition(current_candle, previous_candle)
    THEN OpenPositionCalls(safety, "buy")
    ELSE IF ~safety["ignore_shorts"]
            /\ CheckShortEntryCondition(current_candle, previous_candle)
    THEN OpenPositionCalls(safety, "sell")
    ELSE <<>>

\* A variant of EntryReached that checks entry signals also when a position
\* is open and was not closed.
EntryReachedWithPosition(current_position) == TRUE

\* run_single_iteration, lines 340-352: the else branch, account setup and
\* entry signals, is taken when no position is reported.
EntryReached(current_position) == current_position = "none"

\* ------------------------------------------------------------------ inputs
Closes == {1, 2}

Positions == {-2, -1, 0, 1}

\* Hours between two bars' timestamps; 0 stands for a frame without a
\* timestamp column.
TsSteps == {0, 12}

\* A frame of bars: close and position, and timestamp when step > 0.
Bars(close, position, step) ==
    [cols |-> {"close", "position"} \cup (IF step > 0 THEN {"timestamp"} ELSE {}),
     n |-> Len(close),
     col |-> [NoColumns EXCEPT
                 !["close"] = FSeq(close),
                 !["position"] = FSeq(position),
                 !["timestamp"] = IF step > 0
                                  THEN [i \in Idx(close) |-> step * (i - 1)]
                                  ELSE <<>>]]

\* A frame that already carries a pnl column beside position.
Ledger(position, pnl) ==
    [cols |-> {"position", "pnl"},
     n |-> Len(position),
     col |-> [NoColumns EXCEPT !["position"] = FSeq(position),
                               !["pnl"] = FSeq(pnl)]]

\* A frame of bars without a position column.
CloseOnly(close, step) ==
    [cols |-> {"close"} \cup (IF step > 0 THEN {"timestamp"} ELSE {}),
     n |-> Len(close),
     col |-> [NoColumns EXCEPT
                 !["close"] = FSeq(close),
                 !["timestamp"] = IF step > 0
                                  THEN [i \in Idx(close) |-> step * (i - 1)]
                                  ELSE <<>>]]

LedgerPositions == {0, 1}

LedgerPnls == {-1, 0, 2}

ScenarioA == Bars(<<100, 110, 99, 99>>, <<0, 1, 1, 0>>, 24)

ScenarioB == Ledger(<<0, 1, 1, 1, 0, 0, 1, 0>>, <<0, 2, 3, -1, 1, 0, -2, 1>>)

\* A series that falls and recovers a day later.
ScenarioRecovery == Bars(<<1, 2, 1, 2>>, <<1, 1, 1, 1>>, 24)

BarFrames ==
    {ScenarioA, ScenarioRecovery} \cup
    UNION {{Bars(c, p, st) : c \in [1..n -> Closes], p \in [1..n -> Positions],
                             st \in TsSteps} : n \in 0..MaxLen}

CloseOnlyFrames ==
    UNION {{CloseOnly(c, st) : c \in [1..n -> Closes], st \in TsSteps}
              : n \in 0..MaxLen}

LedgerFrames ==
    {ScenarioB} \cup
    UNION {{Ledger(p, q) : p \in [1..n -> LedgerPositions],
                           q \in [1..n -> LedgerPnls]} : n \in 0..MaxLedgerLen}

\* The bars the optimised strategy holds (self.data).
OptData == CloseOnly(<<1, 2, 1, 2>>, 24)

\* Data without a close column: run_backtest raises on it.
NoCloseData ==
    [cols |-> {"timestamp"}, n |-> 4,
     col |-> [NoColumns EXCEPT !["timestamp"] = <<0, 24, 48, 72>>]]

\* The parameter values of the grids below.
SignalDomain == {<<F(w), F(t)>> : w \in {10, 20}, t \in {1, 2}}

Signal(position) == [raises |-> FALSE, position |-> position]

NoSignal == [raises |-> TRUE, position |-> <<>>]

\* What generate_signals may do at one combination: raise, or signal one of
\* these long-only position series.
SignalChoices ==
    {NoSignal, Signal(<<0, 0, 0, 0>>), Signal(<<0, 1, 0, 0>>),
     Signal(<<1, 0, 1, 0>>)}

\* StrategyV2's transaction_cost: none, or a quarter of the traded size.
TransactionCosts == {Zero, Norm(1, 4)}

Strategies ==
    {[data |-> OptData, signals |-> f, transaction_cost |-> c, position_size |-> One]
        : f \in [SignalDomain -> SignalChoices], c \in TransactionCosts}
        \cup {[data |-> NoCloseData,
               signals |-> [c \in SignalDomain |-> Signal(<<0, 1, 0, 0>>)],
               transaction_cost |-> Zero, position_size |-> One]}

\* StrategyV2's position_size: half of the capital, or all of it.
PositionSizes == {Norm(1, 2), One}

\* The long signals of a strategy: one series at window 10 and no signal
\* at any bar at window 20, whatever the threshold.
SignalsByWindow(at10) ==
    [c \in SignalDomain |->
        Signal(IF c[1] = F(10) THEN at10 ELSE [i \in Idx(at10) |-> 0])]

\* The StrategyV2 instances that are backtested: daily bars with a
\* timestamp, at least one bar.
V2Strategies ==
    UNION {{[data |-> CloseOnly(close, 24), signals |-> SignalsByWindow(at10),
             transaction_cost |-> c, position_size |-> size]
               : close \in [1..n -> Closes], at10 \in [1..n -> {0, 1}],
                 c \in TransactionCosts, size \in PositionSizes}
              : n \in 1..MaxV2Len}

Item(name, range) == [name |-> name, range |-> range]

GridTwoByTwo ==
    <<Item("window", ListOf(<<F(10), F(20)>>)),
      Item("threshold", ListOf(<<F(1), F(2)>>))>>

GridRsi ==
    <<Item("rsi_length", ListOf(<<F(5)>>)),
      Item("rsi_overbought", ListOf(<<F(70)>>))>>

Grids ==
    {GridTwoByTwo,
     GridRsi,
     <<Item("window", ListOf(<<F(10), F(10)>>)), Item("threshold", SingleOf(F(2)))>>,
     <<Item("window", RangeOf(F(10), F(20), F(10))),
       Item("threshold", ListOf(<<F(1)>>))>>,
     <<Item("window", ListOf(<<>>)), Item("threshold", ListOf(<<F(1)>>))>>}

TargetMetrics == {"sharpe", "sortino"}

\* The (start, stop, step) tuples that are expanded: step > 0, stop on
\* either side of start, stop - start a multiple of step or not.
Ranges ==
    {RangeOf(F(start), F(stop), step)
        : start \in {1, 2}, stop \in 1..MaxStop, step \in {Norm(1, 2), One, F(2)}}

\* Grids of two ranges.
RangeGrids ==
    {<<Item("window", w), Item("threshold", t)>> : w \in Ranges, t \in Ranges}

\* The zscore of the current candle (below the exit level, between the
\* levels, above the entry level) and of the previous one.
CurrentZScores == {Zero, One, F(3)}

PreviousZScores == {One, F(3)}

\* The position fetch_positions reports for the symbol.
PositionSides == {"none", "long", "short"}

\* The USDC balance the exchange reports.
Balances == {0, 100}

\* The exchange call that raises during the iteration, if one does.
FailingCalls ==
    {"none", "fetch_ohlcv", "fetch_balance", "fetch_positions", "set_leverage",
     "set_margin_mode", "place_market_order"}

\* ------------------------------------------------------------------ state
VARIABLES
    df,              \* the caller's frame
    frame,           \* the frame the analysis works on
    pc,              \* what has been called so far
    result,          \* what calculate_all_metrics did and returned
    trade_pnls,      \* the list _extract_trade_pnls returned
    trade_durations, \* the list calculate_avg_trade_duration built
    stats,           \* the values the trade statistics returned
    strategy,        \* Optimizer.strategy
    param_ranges,    \* the grid passed to optimize_parameters
    metric,          \* the target metric passed to it
    param_combinations,
    combo_i,         \* the loop's index i into param_combinations, from 1
    results,         \* the list of result rows
    results_df,      \* the table optimize_parameters returned
    best_params,     \* what find_best_parameters returned
    safety,          \* the bot's safety flags
    exchange,        \* the exchange: open position, balance, the call that fails
    candles,         \* zscore of the current and the previous candle
    calls,           \* the calls made to the exchange, in order
    bot              \* run_single_iteration's balance, current_position, return

btvars == <<df, frame, result, trade_pnls, trade_durations, stats>>

optvars == <<strategy, param_ranges, metric, param_combinations, combo_i, results,
             results_df, best_params>>

botvars == <<safety, exchange, candles, calls, bot>>

\* What no analysis changes: the installed pandas and the trading bot.
outside == <<idxmin_raises, botvars>>

vars == <<pc, btvars, optvars, outside>>

NoBot == [balance |-> 0, current_position |-> "none", entry_checked |-> FALSE,
          returned |-> "none"]

NoSafety == [f \in FlagNames |-> FALSE]

NoExchange == [position |-> "none", balance |-> 0, failing |-> "none"]

\* No bot is running.
BotIdle ==
    /\ safety = NoSafety
    /\ exchange = NoExchange
    /\ candles = <<Zero, Zero>>
    /\ calls = <<>>
    /\ bot = NoBot

NoResult == [outcome |-> "none", metrics |-> GetEmptyMetrics]

NoStats == [win_rate |-> NaN, max_consecutive_losses |-> NaN,
            avg_trade_duration |-> NaN, profit_factor |-> NaN,
            recovery_time |-> NaN, total_trades |-> NaN]

IsBars(d) == "pnl" \notin d.cols

NoStrategy == [data |-> CloseOnly(<<>>, 0), signals |-> <<>>,
               transaction_cost |-> Zero, position_size |-> One]

\* Python's None, where a row is expected.
None == [window |-> NaN]

Init ==
    /\ BotIdle
    /\ df \in BarFrames \cup CloseOnlyFrames \cup LedgerFrames
    /\ idxmin_raises \in (IF "timestamp" \in df.cols THEN BOOLEAN ELSE {TRUE})
    /\ frame = df
    /\ pc = "start"
    /\ result = NoResult
    /\ trade_pnls = <<>>
    /\ trade_durations = <<>>
    /\ stats = NoStats
    /\ strategy = NoStrategy
    /\ param_ranges = <<>>
    /\ metric = "sharpe"
    /\ param_combinations = <<>>
    /\ combo_i = 0
    /\ results = <<>>
    /\ results_df = <<>>
    /\ best_params = None

\* Backtester.run_backtest(df, silent=True): it builds df_test, computes the
\* metrics (which may raise) and returns df_test.
RunBacktest ==
    /\ pc = "start"
    /\ IsBars(df)
    /\ LET df_test == BacktestFrame(df)
       IN  IF RunBacktestRaises(df)
           THEN /\ pc' = "raised"
                /\ UNCHANGED <<df, frame>>
           ELSE IF CalculateAllMetrics(df_test).outcome = "raise"
           THEN /\ pc' = "raised"
                /\ df' = AfterCopy(df, df_test)
                /\ UNCHANGED frame
           ELSE /\ pc' = "backtested"
                /\ df' = AfterCopy(df, df_test)
                /\ frame' = df_test
    /\ UNCHANGED <<result, trade_pnls, trade_durations, stats, optvars, outside>>

\* Analyzer._prepare_data(df)
PrepareDataCall ==
    /\ pc = "start"
    /\ IsBars(df)
    /\ IF PrepareDataRaises(df)
       THEN pc' = "raised" /\ UNCHANGED <<df, frame>>
       ELSE /\ pc' = "prepared"
            /\ frame' = PrepareData(df)
            /\ df' = AfterPrepareCopy(df, PrepareData(df))
    /\ UNCHANGED <<result, trade_pnls, trade_durations, stats, optvars, outside>>

\* Backtester.calculate_metrics(frame) = Analyzer.calculate_all_metrics(frame),
\* on the caller's frame or on the one run_backtest returned.
CalculateMetrics ==
    /\ pc \in {"start", "backtested"}
    /\ result' = CalculateAllMetrics(frame)
    /\ pc' = IF result'.outcome = "raise" THEN "raised" ELSE "analyzed"
    /\ IF pc = "start" /\ "pnl" \notin df.cols /\ ~PrepareDataRaises(df)
       THEN df' = AfterPrepareCopy(df, PrepareData(df))
       ELSE UNCHANGED df
    /\ UNCHANGED <<frame, trade_pnls, trade_durations, stats, optvars, outside>>

HasTradeColumns == {"position", "pnl"} \subseteq frame.cols

\* Analyzer.calculate_win_rate(frame)
WinRate ==
    /\ \/ pc = "analyzed"
       \/ pc = "start" /\ ~IsBars(df)
    /\ HasTradeColumns
    /\ trade_pnls' = ExtractTradePnls(frame)
    /\ stats' = [stats EXCEPT !.win_rate = CalculateWinRate(frame)]
    /\ pc' = "win_rate"
    /\ UNCHANGED <<df, frame, result, trade_durations, optvars, outside>>

\* Analyzer.calculate_max_consecutive_losses(frame)
MaxConsecutiveLosses ==
    /\ pc = "win_rate"
    /\ stats' = [stats EXCEPT
                    !.max_consecutive_losses = CalculateMaxConsecutiveLosses(frame)]
    /\ pc' = "max_consecutive_losses"
    /\ UNCHANGED <<df, frame, result, trade_pnls, trade_durations, optvars, outside>>

\* Analyzer.calculate_avg_trade_duration(frame)
AvgTradeDuration ==
    /\ pc = "max_consecutive_losses"
    /\ trade_durations' = TradeDurations(frame)
    /\ stats' = [stats EXCEPT !.avg_trade_duration = CalculateAvgTradeDuration(frame)]
    /\ pc' = "done"
    /\ UNCHANGED <<df, frame, result, trade_pnls, optvars, outside>>

\* Analyzer.calculate_profit_factor(frame)
ProfitFactor ==
    /\ pc = "done"
    /\ stats' = [stats EXCEPT !.profit_factor = CalculateProfitFactor(frame)]
    /\ pc' = "profit_factor"
    /\ UNCHANGED <<df, frame, result, trade_pnls, trade_durations, optvars, outside>>

\* Analyzer.calculate_recovery_time(frame), on the caller's frame or on a
\* prepared one.
RecoveryTime ==
    /\ pc \in {"start", "backtested", "prepared"}
    /\ IsBars(df)
    /\ IF RecoveryTimeRaises(frame)
       THEN pc' = "recovery_time_raised" /\ UNCHANGED stats
       ELSE /\ pc' = "recovery_time"
            /\ stats' = [stats EXCEPT !.recovery_time = CalculateRecoveryTime(frame)]
    /\ UNCHANGED <<df, frame, result, trade_pnls, trade_durations, optvars, outside>>

\* Analyzer.calculate_total_trades(frame), on the caller's frame or on a
\* prepared one.
TotalTrades ==
    /\ pc \in {"start", "backtested", "prepared"}
    /\ stats' = [stats EXCEPT !.total_trades = CalculateTotalTrades(frame)]
    /\ pc' = "total_trades"
    /\ UNCHANGED <<df, frame, result, trade_pnls, trade_durations, optvars, outside>>

Next ==
    \/ RunBacktest
    \/ PrepareDataCall
    \/ CalculateMetrics
    \/ WinRate
    \/ MaxConsecutiveLosses
    \/ AvgTradeDuration
    \/ ProfitFactor
    \/ RecoveryTime
    \/ TotalTrades

Spec == Init /\ [][Next]_vars

\* ------------------------------------------------------------------ optimizer run
\* Optimizer(strategy, backtester), before optimize_parameters(param_ranges,
\* metric) or find_best_parameters(param_ranges, metric) is called.
OptInit ==
    /\ BotIdle
    /\ strategy \in Strategies
    /\ param_ranges \in Grids
    /\ metric \in TargetMetrics
    /\ idxmin_raises \in BOOLEAN
    /\ pc = "optimize"
    /\ param_combinations = <<>>
    /\ combo_i = 0
    /\ results = <<>>
    /\ results_df = <<>>
    /\ best_params = None
    /\ df = strategy.data
    /\ frame = df
    /\ result = NoResult
    /\ trade_pnls = <<>>
    /\ trade_durations = <<>>
    /\ stats = NoStats

\* optimize_parameters, lines 27-30
GenerateCombinations ==
    /\ pc = "optimize"
    /\ param_combinations' = GenerateParamCombinations(param_ranges)
    /\ results' = <<>>
    /\ combo_i' = 1
    /\ pc' = "loop"
    /\ UNCHANGED <<btvars, outside, strategy, param_ranges, metric, results_df, best_params>>

\* optimize_parameters, lines 32-59: one pass of the loop.
EvaluateCombination ==
    /\ pc = "loop"
    /\ combo_i <= Len(param_combinations)
    /\ LET params == param_combinations[combo_i]
       IN  /\ results' = IF CombinationRaises(strategy, params) THEN results
                         ELSE Append(results, ResultRow(strategy, params))
           /\ strategy' =
                  IF /\ {"window", "threshold"} \subseteq DOMAIN params
                     /\ ~GenerateSignalsRaises(strategy, params["window"],
                                               params["threshold"])
                  THEN [strategy EXCEPT !.data =
                           AfterSignalsCopy(@, GenerateSignals(strategy,
                                                   params["window"],
                                                   params["threshold"]))]
                  ELSE strategy
    /\ combo_i' = combo_i + 1
    /\ UNCHANGED <<pc, btvars, outside, param_ranges, metric, param_combinations,
                   results_df, best_params>>

\* optimize_parameters, lines 62-70: pd.DataFrame(results), sort_values and
\* the return.  The table of an empty list has no columns, and sort_values
\* raises KeyError for the metric.
SortResults ==
    /\ pc = "loop"
    /\ combo_i > Len(param_combinations)
    /\ IF results = <<>>
       THEN pc' = "raised" /\ UNCHANGED results_df
       ELSE pc' = "returned" /\ results_df' \in SortValues(results, metric)
    /\ UNCHANGED <<btvars, outside, strategy, param_ranges, metric, param_combinations,
                   combo_i, results, best_params>>

\* find_best_parameters, lines 102-115, once optimize_parameters returned.
FindBestParameters ==
    /\ pc = "returned"
    /\ best_params' = IF Len(results_df) = 0 THEN None ELSE results_df[1]
    /\ pc' = "best"
    /\ UNCHANGED <<btvars, outside, strategy, param_ranges, metric, param_combinations,
                   combo_i, results, results_df>>

OptNext ==
    \/ GenerateCombinations
    \/ EvaluateCombination
    \/ SortResults
    \/ FindBestParameters

OptSpec == OptInit /\ [][OptNext]_vars

\* ------------------------------------------------------------------ grid expansion
GridInit ==
    /\ BotIdle
    /\ param_ranges \in RangeGrids
    /\ pc = "grid"
    /\ strategy = NoStrategy
    /\ idxmin_raises = TRUE
    /\ metric = "sharpe"
    /\ param_combinations = <<>>
    /\ combo_i = 0
    /\ results = <<>>
    /\ results_df = <<>>
    /\ best_params = None
    /\ df = strategy.data
    /\ frame = df
    /\ result = NoResult
    /\ trade_pnls = <<>>
    /\ trade_durations = <<>>
    /\ stats = NoStats

\* Optimizer._generate_param_combinations(param_ranges)
GenerateParamCombinationsCall ==
    /\ pc = "grid"
    /\ param_combinations' = GenerateParamCombinations(param_ranges)
    /\ pc' = "combinations"
    /\ UNCHANGED <<btvars, outside, strategy, param_ranges, metric, combo_i,
                   results, results_df, best_params>>

GridSpec == GridInit /\ [][GenerateParamCombinationsCall]_vars

\* ------------------------------------------------------------------ StrategyV2 run
V2Init ==
    /\ BotIdle
    /\ strategy \in V2Strategies
    /\ idxmin_raises \in BOOLEAN
    /\ pc = "v2"
    /\ df = strategy.data
    /\ frame = strategy.data
    /\ result = NoResult
    /\ trade_pnls = <<>>
    /\ trade_durations = <<>>
    /\ stats = NoStats
    /\ param_ranges = <<>>
    /\ metric = "sharpe"
    /\ param_combinations = <<>>
    /\ combo_i = 0
    /\ results = <<>>
    /\ results_df = <<>>
    /\ best_params = None

\* StrategyV2.backtest(window, threshold): signals, transaction costs,
\* _run_backtest_with_costs and its metrics; frame is the df_test returned.
Backtest ==
    /\ pc = "v2"
    /\ \E c \in SignalDomain :
          LET df_test == V2BacktestFrame(strategy, c[1], c[2])
          IN  /\ result' = CalculateAllMetrics(df_test)
              /\ IF result'.outcome = "raise"
                 THEN pc' = "raised" /\ UNCHANGED frame
                 ELSE pc' = "v2_backtested" /\ frame' = df_test
    /\ strategy' = [strategy EXCEPT !.data = AfterSignalsCopy(strategy.data, frame')]
    /\ UNCHANGED <<df, trade_pnls, trade_durations, stats, outside, param_ranges,
                   metric, param_combinations, combo_i, results, results_df,
                   best_params>>

\* backtester.run_backtest(strategy.generate_signals(window, threshold),
\* silent=True), as the optimizer evaluates a combination.
RunBacktestOnSignals ==
    /\ pc = "v2"
    /\ \E c \in SignalDomain :
          LET df_test == EvaluationFrame(strategy, c[1], c[2])
          IN  /\ result' = CalculateAllMetrics(df_test)
              /\ IF result'.outcome = "raise"
                 THEN pc' = "raised" /\ UNCHANGED frame
                 ELSE pc' = "gross_backtested" /\ frame' = df_test
    /\ strategy' = [strategy EXCEPT !.data = AfterSignalsCopy(strategy.data, frame')]
    /\ UNCHANGED <<df, trade_pnls, trade_durations, stats, outside, param_ranges,
                   metric, param_combinations, combo_i, results, results_df,
                   best_params>>

\* Analyzer._extract_trade_pnls(frame) on the frame a backtest returned.
ExtractTradePnlsCall ==
    /\ pc \in {"v2_backtested", "gross_backtested"}
    /\ trade_pnls' = ExtractTradePnls(frame)
    /\ pc' = IF pc = "v2_backtested" THEN "v2_trades" ELSE "gross_trades"
    /\ UNCHANGED <<df, frame, result, trade_durations, stats, outside, optvars>>

V2Next ==
    \/ Backtest
    \/ RunBacktestOnSignals
    \/ ExtractTradePnlsCall

V2Spec == V2Init /\ [][V2Next]_vars

\* ------------------------------------------------------------------ trading bot run
BotInit ==
    /\ safety \in [FlagNames -> BOOLEAN]
    /\ exchange \in [position : PositionSides, balance : Balances,
                     failing : FailingCalls]
    /\ candles \in CurrentZScores \X PreviousZScores
    /\ calls = <<>>
    /\ bot = NoBot
    /\ pc = "bot"
    /\ idxmin_raises = TRUE
    /\ strategy = NoStrategy
    /\ param_ranges = <<>>
    /\ metric = "sharpe"
    /\ param_combinations = <<>>
    /\ combo_i = 0
    /\ results = <<>>
    /\ results_df = <<>>
    /\ best_params = None
    /\ df = strategy.data
    /\ frame = df
    /\ result = NoResult
    /\ trade_pnls = <<>>
    /\ trade_durations = <<>>
    /\ stats = NoStats

\* run_single_iteration, lines 330-332: get_market_data, which returns
\* None when the fetch raises, and then the iteration returns False.
GetMarketData ==
    /\ pc = "bot"
    /\ calls' = Append(calls, Call("fetch_ohlcv"))
    /\ IF exchange.failing = "fetch_ohlcv"
       THEN pc' = "exit" /\ bot' = [bot EXCEPT !.returned = "False"]
       ELSE pc' = "market_data" /\ UNCHANGED bot
    /\ UNCHANGED <<btvars, optvars, idxmin_raises, safety, exchange, candles>>

\* run_single_iteration, lines 335-337: get_account_status, which returns
\* (0, None) when a fetch raises; a balance of 0 ends the iteration.
GetAccountStatus ==
    /\ pc = "market_data"
    /\ LET planned == <<Call("fetch_balance"), Call("fetch_positions")>>
           failed == Fails(planned, exchange.failing)
           balance == IF failed THEN 0 ELSE exchange.balance
           current_position == IF failed THEN "none" ELSE exchange.position
       IN  /\ calls' = calls \o MadeUntilFailure(planned, exchange.failing)
           /\ IF balance = 0
              THEN pc' = "exit" /\ bot' = [bot EXCEPT !.returned = "False"]
              ELSE /\ pc' = "account_status"
                   /\ bot' = [bot EXCEPT !.balance = balance,
                                         !.current_position = current_position]
    /\ UNCHANGED <<btvars, optvars, idxmin_raises, safety, exchange, candles>>

\* run_single_iteration, lines 340-344 and 359: manage_existing_position on
\* the reported position; the iteration returns True whatever it returns.
ManageExistingPosition ==
    /\ pc = "account_status"
    /\ bot.current_position # "none"
    /\ calls' = calls \o MadeUntilFailure(
                    ManageCalls(safety, bot.current_position, candles[1], candles[2]),
                    exchange.failing)
    /\ IF EntryReached(bot.current_position)
       THEN pc' = "entry" /\ UNCHANGED bot
       ELSE pc' = "exit" /\ bot' = [bot EXCEPT !.returned = "True"]
    /\ UNCHANGED <<btvars, optvars, idxmin_raises, safety, exchange, candles>>

\* run_single_iteration, lines 347-349: setup_account, which returns False
\* when a call raises, and then the iteration returns False.
SetupAccount ==
    /\ pc = "account_status"
    /\ EntryReached(bot.current_position)
    /\ calls' = calls \o MadeUntilFailure(SetupAccountCalls(safety), exchange.failing)
    /\ IF Fails(SetupAccountCalls(safety), exchange.failing)
       THEN pc' = "exit" /\ bot' = [bot EXCEPT !.returned = "False"]
       ELSE pc' = "entry" /\ UNCHANGED bot
    /\ UNCHANGED <<btvars, optvars, idxmin_raises, safety, exchange, candles>>

\* run_single_iteration, lines 352-359: check_entry_signals; the iteration
\* returns True whatever it returns.
CheckEntrySignals ==
    /\ pc = "entry"
    /\ calls' = calls \o MadeUntilFailure(EntryCalls(safety, candles[1], candles[2]),
                                         exchange.failing)
    /\ bot' = [bot EXCEPT !.entry_checked = TRUE, !.returned = "True"]
    /\ pc' = "exit"
    /\ UNCHANGED <<btvars, optvars, idxmin_raises, safety, exchange, candles>>

BotNext ==
    \/ GetMarketData
    \/ GetAccountStatus
    \/ ManageExistingPosition
    \/ SetupAccount
    \/ CheckEntrySignals

BotSpec == BotInit /\ [][BotNext]_vars

\* ------------------------------------------------------------------ claims
Prepared == pc \in {"backtested", "prepared"}

Col(c) == frame.col[c]

\* The bars at which a trade closes: a zero position after a non-zero one.
ExitBars(position) ==
    {x \in 2..Len(position) :
        FEq(position[x], Zero) /\ FNe(position[x - 1], Zero)}

\* The k-th closing bar, in time order.
KthExit(position, k) ==
    CHOOSE x \in ExitBars(position) :
        Cardinality({y \in ExitBars(position) : y < x}) = k - 1

\* The entry bar of the run of non-zero positions that ends at bar x - 1.
EntryOf(position, x) ==
    CHOOSE e \in 1..(x - 1) :
        /\ \A j \in e..(x - 1) : FNe(position[j], Zero)
        /\ e = 1 \/ FEq(position[e - 1], Zero)

\* s[a] + ... + s[b]
RECURSIVE SumRange(_, _, _)
SumRange(s, a, b) == IF a > b THEN Zero ELSE FAdd(SumRange(s, a, b - 1), s[b])

\* C1 (as claimed): in every prepared series pnl[t] = position[t-1] * returns[t]
\* for t >= 1, and the first bar's pnl is exactly 0.
C1_LagOnePnlFirstZero ==
    Prepared =>
        /\ frame.n >= 1 => FEq(Col("pnl")[1], Zero)
        /\ \A i \in 2..frame.n :
               Col("pnl")[i] = FMul(Col("position")[i - 1], Col("returns")[i])

\* C2 (as claimed): in every prepared series the drawdown is <= 0 at every bar.
C2_DrawdownNeverPositive ==
    Prepared => \A i \in 1..frame.n : FLe(Col("drawdown")[i], Zero)

\* C3 (as claimed): scenario A gives returns [0, 0.10, -0.10, 0],
\* pnl [0, 0, 0.10, -0.10], equity_curve [1, 1, 1.10, 0.99] and
\* drawdown [0, 0, 0, -0.10].
C3_ScenarioA_AsClaimed ==
    (df = ScenarioA /\ pc = "backtested") =>
        /\ Col("returns") = <<Zero, Norm(1, 10), Norm(-1, 10), Zero>>
        /\ Col("pnl") = <<Zero, Zero, Norm(1, 10), Norm(-1, 10)>>
        /\ Col("equity_curve") = <<One, One, Norm(11, 10), Norm(99, 100)>>
        /\ Col("drawdown") = <<Zero, Zero, Zero, Norm(-1, 10)>>

\* C3 (amended): scenario A gives returns [0, 0.10, -0.10, 0],
\* pnl [NaN, 0, -0.10, 0] (position[t-1] * returns[t]), equity_curve
\* [NaN, 1, 0.90, 0.90] and drawdown [NaN, 0, -0.10, -0.10].
C3_ScenarioA ==
    (df = ScenarioA /\ pc = "backtested") =>
        /\ Col("returns") = <<Zero, Norm(1, 10), Norm(-1, 10), Zero>>
        /\ Col("pnl") = <<NaN, Zero, Norm(-1, 10), Zero>>
        /\ Col("equity_curve") = <<NaN, One, Norm(9, 10), Norm(9, 10)>>
        /\ Col("drawdown") = <<NaN, Zero, Norm(-1, 10), Norm(-1, 10)>>

C3_Witness == df = ScenarioA /\ pc = "backtested" /\ Len(Col("pnl")) = 4

\* C4 (as claimed): calculate_max_drawdown returns abs(min drawdown) * 100
\* (to 2 decimals), a number >= 0, for every prepared series, and 10.0 for
\* scenario A.
C4_MaxDrawdownDefined ==
    Prepared =>
        /\ FGe(CalculateMaxDrawdown(frame), Zero)
        /\ frame.n >= 1 =>
               CalculateMaxDrawdown(frame)
                   = Round(FMul(FAbs(SMin(Col("drawdown"))), F(100)), 2)
        /\ df = ScenarioA => CalculateMaxDrawdown(frame) = F(10)

\* C5 (as claimed): a series whose position is 0 at every bar has
\* equity_curve 1.0 and drawdown 0 at every bar, the first included.
C5_FlatSeriesConstant ==
    (Prepared /\ \A i \in 1..frame.n : FEq(Col("position")[i], Zero)) =>
        \A i \in 1..frame.n :
            FEq(Col("equity_curve")[i], One) /\ FEq(Col("drawdown")[i], Zero)

Segmented == pc \in {"win_rate", "max_consecutive_losses", "done"}

\* C6 (as claimed): the PnL recorded for a resolved trade is the sum of pnl
\* over every bar of the run and the closing bar, entry bar included; for
\* scenario B the list is [5, -1], win_rate 50 and max_consecutive_losses 1.
C6_TradePnlFromEntryBar ==
    Segmented =>
        /\ \A k \in 1..Len(trade_pnls) :
               trade_pnls[k]
                   = SumRange(Col("pnl"),
                              EntryOf(Col("position"), KthExit(Col("position"), k)),
                              KthExit(Col("position"), k))
        /\ (df = ScenarioB /\ pc = "done") =>
               /\ trade_pnls = <<F(5), F(-1)>>
               /\ stats.win_rate = F(50)
               /\ stats.max_consecutive_losses = F(1)

\* C6 (amended): the list holds one PnL per closing bar, in time order, and
\* the PnL recorded for a resolved trade entered at bar s and closed at bar
\* x is pnl[s+1] + ... + pnl[x]: the entry bar's pnl is not added.  For
\* scenario B the list is [3, 1], win_rate 100 and max_consecutive_losses 0.
C6_TradePnlAfterEntryBar ==
    Segmented =>
        /\ Len(trade_pnls) = Cardinality(ExitBars(Col("position")))
        /\ \A k \in 1..Len(trade_pnls) :
               trade_pnls[k]
                   = SumRange(Col("pnl"),
                              EntryOf(Col("position"), KthExit(Col("position"), k)) + 1,
                              KthExit(Col("position"), k))
        /\ (df = ScenarioB /\ pc = "done") =>
               /\ trade_pnls = <<F(3), F(1)>>
               /\ stats.win_rate = F(100)
               /\ stats.max_consecutive_losses = Zero

C6_Witness ==
    /\ df = ScenarioB
    /\ pc = "done"
    /\ trade_pnls = <<F(3), F(1)>>
    /\ Col("pnl")[2] = F(2)

\* C7 (as claimed): the duration of a closed trade counts the bars from its
\* entry bar through its exit bar; for scenario B the list is [4, 2] and
\* avg_trade_duration 3.0.
C7_DurationThroughExitBar ==
    pc = "done" =>
        /\ \A k \in 1..Cardinality(ExitBars(Col("position"))) :
               trade_durations[k]
                   = KthExit(Col("position"), k)
                       - EntryOf(Col("position"), KthExit(Col("position"), k)) + 1
        /\ df = ScenarioB =>
               /\ trade_durations = <<4, 2>>
               /\ stats.avg_trade_duration = F(3)

\* C7 (amended): the duration of a closed trade is the number of bars from
\* its entry bar through the last bar before its exit bar (its bars with a
\* non-zero position); for scenario B the list is [3, 1] and
\* avg_trade_duration 2.0.
C7_DurationBeforeExitBar ==
    pc = "done" =>
        /\ \A k \in 1..Cardinality(ExitBars(Col("position"))) :
               trade_durations[k]
                   = KthExit(Col("position"), k)
                       - EntryOf(Col("position"), KthExit(Col("position"), k))
        /\ df = ScenarioB =>
               /\ trade_durations = <<3, 1>>
               /\ stats.avg_trade_duration = F(2)

C7_Witness == df = ScenarioB /\ pc = "done" /\ trade_durations = <<3, 1>>

OpenAtEnd == frame.n >= 1 /\ FNe(Col("position")[frame.n], Zero)

\* C8: a trade open at the last bar has a duration and no PnL: there is one
\* more duration than PnLs when the final position is non-zero and as many
\* otherwise, the k-th duration and the k-th PnL are those of the k-th
\* closed trade, and the extra duration is the open trade's bars up to the
\* last one.
C8_OpenTradeOnlyInDurations ==
    pc = "done" =>
        /\ Len(trade_durations) - Len(trade_pnls) = (IF OpenAtEnd THEN 1 ELSE 0)
        /\ Len(trade_pnls) = Cardinality(ExitBars(Col("position")))
        /\ \A k \in 1..Len(trade_pnls) :
               LET x == KthExit(Col("position"), k)
                   e == EntryOf(Col("position"), x)
               IN  /\ trade_durations[k] = x - e
                   /\ trade_pnls[k] = SumRange(Col("pnl"), e + 1, x)
        /\ OpenAtEnd =>
               trade_durations[Len(trade_durations)]
                   = frame.n + 1 - EntryOf(Col("position"), frame.n + 1)

C8_Witness ==
    /\ pc = "done"
    /\ OpenAtEnd
    /\ Len(trade_pnls) >= 1
    /\ Len(trade_durations) = Len(trade_pnls) + 1

\* The pnl series calculate_all_metrics works on.
HasPnlSeries == "pnl" \in frame.cols \/ ~PrepareDataRaises(frame)

AnalyzedPnl ==
    DropNa((IF "pnl" \in frame.cols THEN frame ELSE PrepareData(frame)).col["pnl"])

\* std() == 0: at least two values, all equal.
ZeroVariance(p) == Len(p) >= 2 /\ \A i \in Idx(p) : p[i] = p[1]

\* C9: when the pnl series is empty or has zero variance (std() == 0),
\* calculate_all_metrics returns the default record: each of the 13 metrics
\* is 0, whatever the positions are.
C9_DegenerateGivesDefaults ==
    (pc \in {"analyzed", "raised"} /\ HasPnlSeries
        /\ (Len(AnalyzedPnl) = 0 \/ ZeroVariance(AnalyzedPnl))) =>
        /\ result.outcome = "return"
        /\ \A k \in MetricNames : result.metrics[k] = Zero

C9_Witness ==
    /\ pc = "analyzed"
    /\ ZeroVariance(AnalyzedPnl)
    /\ \E i \in 2..frame.n :
           /\ FNe(Col("position")[i], Zero)
           /\ Col("position")[i] # Col("position")[i - 1]
    /\ \A k \in MetricNames : result.metrics[k] = Zero

\* C10 (as claimed): for every non-empty series of bars with positive closes
\* and a position column calculate_all_metrics raises no error and every
\* metric is a number or +infinity, never NaN.
C10_MetricsAlwaysDefined ==
    (pc \in {"analyzed", "raised"} /\ IsBars(df) /\ "position" \in df.cols
        /\ df.n >= 1) =>
        /\ result.outcome = "return"
        /\ \A k \in MetricNames :
               IsNum(result.metrics[k]) \/ result.metrics[k] = Inf

\* C11 (as claimed): for a bar series with a close column and no position
\* column, the Preparer and the Runner do not raise: they return a prepared
\* series with pnl 0, equity_curve 1.0 and drawdown 0 at every bar.
C11_MissingPositionIsFlat ==
    ("close" \in df.cols /\ "position" \notin df.cols /\ pc # "start") =>
        /\ pc # "raised"
        /\ Prepared =>
               \A i \in 1..frame.n :
                   /\ FEq(Col("pnl")[i], Zero)
                   /\ FEq(Col("equity_curve")[i], One)
                   /\ FEq(Col("drawdown")[i], Zero)

LoopDone == pc \in {"returned", "best", "raised"} /\ param_combinations # <<>>

\* The combinations of the grid whose signal generation or backtest raises.
Failing == {c \in Idx(param_combinations) :
               CombinationRaises(strategy, param_combinations[c])}

\* C12 (as claimed): whichever combinations fail, optimize_parameters does
\* not raise: it returns a table with one row per combination that did not
\* fail, and when every combination fails the table is empty and
\* find_best_parameters returns None.
C12_FailuresNeverAbort ==
    LoopDone =>
        /\ pc # "raised"
        /\ Len(results_df) = Len(param_combinations) - Cardinality(Failing)
        /\ (pc = "best" /\ Cardinality(Failing) = Len(param_combinations)) =>
               best_params = None

ExplicitLists ==
    /\ Len(param_ranges) = 2
    /\ param_ranges[1].name = "window" /\ param_ranges[1].range.kind = "list"
    /\ param_ranges[2].name = "threshold" /\ param_ranges[2].range.kind = "list"
    /\ \A p \in 1..2 :
           \A a \in Idx(param_ranges[p].range.values) :
               \A b \in Idx(param_ranges[p].range.values) :
                   param_ranges[p].range.values[a] = param_ranges[p].range.values[b]
                       => a = b

\* The metrics of the signals the strategy gives at (w, t).
MetricsAt(w, t) ==
    CalculateAllMetrics(
        BacktestFrame(SetCol(OptData, "position",
                             FSeq(strategy.signals[<<w, t>>].position)))).metrics

\* C13 (as claimed): for a grid {window: W, threshold: T} of explicit lists
\* with no failing combination, optimize_parameters returns |W| * |T| rows,
\* exactly one for each pair (w, t), each with the metrics of the signals
\* generated at (w, t).
C13_OneRowPerPair ==
    (pc \in {"returned", "best", "raised"} /\ ExplicitLists
        /\ "close" \in strategy.data.cols
        /\ \A c \in SignalDomain : ~strategy.signals[c].raises) =>
        LET W == param_ranges[1].range.values
            T == param_ranges[2].range.values
        IN  /\ pc # "raised"
            /\ Len(results_df) = Len(W) * Len(T)
            /\ \A a \in Idx(W) : \A b \in Idx(T) :
                   /\ Cardinality({r \in Idx(results_df) :
                                      /\ results_df[r]["window"] = W[a]
                                      /\ results_df[r]["threshold"] = T[b]}) = 1
                   /\ \A r \in Idx(results_df) :
                          (/\ results_df[r]["window"] = W[a]
                           /\ results_df[r]["threshold"] = T[b]) =>
                              \A m \in MetricNames :
                                  results_df[r][m] = MetricsAt(W[a], T[b])[m]

\* C14 (as claimed): the returned table is in descending order of the target
\* metric (each row's metric >= the next row's, +infinity first), and
\* find_best_parameters returns a row whose metric is the maximum of the
\* table's.
C14_SortedAndBestIsMax ==
    /\ pc \in {"returned", "best"} =>
           \A r \in 1..(Len(results_df) - 1) :
               FGe(results_df[r][metric], results_df[r + 1][metric])
    /\ (pc = "best" /\ Len(results_df) > 0) =>
           \A r \in Idx(results_df) :
               FGe(best_params[metric], results_df[r][metric])

\* C15 (as claimed): for a grid with other parameter names (rsi_length,
\* rsi_overbought) every combination is passed to the signal generator under
\* the grid's names and recorded in its row: the run returns a table with a
\* row per combination, carrying the combination's values.
C15_AnyParameterNames ==
    (pc \in {"returned", "best", "raised"} /\ param_ranges = GridRsi) =>
        /\ pc # "raised"
        /\ Len(results_df) = Len(param_combinations)
        /\ \A r \in Idx(results_df) :
               /\ {"rsi_length", "rsi_overbought"} \subseteq DOMAIN results_df[r]
               /\ results_df[r]["rsi_length"] = F(5)
               /\ results_df[r]["rsi_overbought"] = F(70)

RowsOfOwnParameters ==
    \A r \in Idx(results) :
        results[r] = [window |-> results[r]["window"],
                      threshold |-> results[r]["threshold"]]
                         @@ MetricsAt(results[r]["window"], results[r]["threshold"])

SameTableAsRows ==
    pc \in {"returned", "best"} =>
        /\ Len(results_df) = Len(results)
        /\ {results_df[r] : r \in Idx(results_df)} = {results[r] : r \in Idx(results)}

C18_CalmarPolicy ==
    pc = "analyzed" =>
        LET annual_return == result.metrics["annual_return"]
            max_drawdown == result.metrics["max_drawdown"]
            calmar == result.metrics["calmar"]
        IN  /\ (FLt(max_drawdown, Norm(1, 100)) /\ FGt(annual_return, Zero))
                   => calmar = Inf
            /\ (FLt(max_drawdown, Norm(1, 100)) /\ FLe(annual_return, Zero))
                   => calmar = Zero
            /\ ~FLt(max_drawdown, Norm(1, 100))
                   => calmar = Round(FDiv(annual_return, max_drawdown), 3)

C18_Witness ==
    /\ pc = "analyzed"
    /\ FGt(result.metrics["total_trades"], Zero)
    /\ result.metrics["max_drawdown"] = Zero
    /\ FGt(result.metrics["annual_return"], Zero)
    /\ result.metrics["calmar"] = Inf

\* The sum of the entries of s[1..k] whose sign is sgn.
RECURSIVE GrossOf(_, _, _)
GrossOf(s, k, sgn) ==
    IF k = 0 THEN Zero
    ELSE FAdd(GrossOf(s, k - 1, sgn), IF Sign(s[k].n) = sgn THEN s[k] ELSE Zero)

Winners == {k \in Idx(trade_pnls) : FGt(trade_pnls[k], Zero)}

Losers == {k \in Idx(trade_pnls) : FLt(trade_pnls[k], Zero)}

\* C19: profit_factor is computed over the resolved trades only: it is the
\* gross positive trade PnL divided by the absolute gross negative trade PnL
\* (2 decimals), +infinity when some resolved trade won and none lost, and 0
\* when there is no resolved trade or none that won or lost.
C19_ProfitFactor ==
    pc = "profit_factor" =>
        /\ trade_pnls = ExtractTradePnls(frame)
        /\ (Losers # {}) =>
               stats.profit_factor
                   = Round(FDiv(GrossOf(trade_pnls, Len(trade_pnls), 1),
                                FAbs(GrossOf(trade_pnls, Len(trade_pnls), -1))), 2)
        /\ (Losers = {} /\ Winners # {}) => stats.profit_factor = Inf
        /\ (Losers = {} /\ Winners = {}) => stats.profit_factor = Zero

C19_Witness ==
    /\ pc = "profit_factor"
    /\ Winners # {}
    /\ Losers # {}
    /\ stats.profit_factor = F(2)

\* The first bar that attains the least drawdown.
MaxDrawdownBar ==
    CHOOSE b \in 0..frame.n :
        /\ b > 0 => /\ ~IsNaN(Col("drawdown")[b])
                    /\ \A j \in 1..frame.n :
                           \/ IsNaN(Col("drawdown")[j])
                           \/ FLt(Col("drawdown")[b], Col("drawdown")[j])
                           \/ (Col("drawdown")[b] = Col("drawdown")[j] /\ b <= j)
        /\ b = 0 => \A j \in 1..frame.n : IsNaN(Col("drawdown")[j])

RecoveredBars ==
    {b \in 1..frame.n : /\ b >= MaxDrawdownBar
                        /\ FGe(Col("drawdown")[b], Norm(-1, 1000))}

\* C20 (as claimed): recovery_time is a value: +infinity exactly when no bar
\* at or after the bar of maximum drawdown has drawdown >= -0.001, otherwise
\* the whole days from that bar's timestamp to the timestamp of the first
\* such bar, never negative; 0 when timestamp or drawdown is absent.
C20_RecoveryTime ==
    pc \in {"recovery_time", "recovery_time_raised"} =>
        /\ pc = "recovery_time"
        /\ IF "drawdown" \notin frame.cols \/ "timestamp" \notin frame.cols
           THEN stats.recovery_time = Zero
           ELSE /\ stats.recovery_time = Inf <=> RecoveredBars = {}
                /\ RecoveredBars # {} =>
                       LET first == CHOOSE b \in RecoveredBars :
                                        \A j \in RecoveredBars : b <= j
                       IN  /\ stats.recovery_time
                                = F((Col("timestamp")[first]
                                       - Col("timestamp")[MaxDrawdownBar]) \div 24)
                           /\ FGe(stats.recovery_time, Zero)

\* The bars t >= 1 (positions 2..n of the column) at which the position
\* differs from the bar before.
ChangeBars == {t \in 2..frame.n : Col("position")[t] # Col("position")[t - 1]}

\* C21: total_trades is the number of bars t >= 1 at which position[t]
\* differs from position[t-1]; the first bar is never counted; it is 0 when
\* the position column is absent.
C21_TotalTradesCountsChanges ==
    pc = "total_trades" =>
        IF "position" \notin frame.cols THEN stats.total_trades = Zero
        ELSE stats.total_trades = F(Cardinality(ChangeBars))

\* A non-zero first bar, then a direct reversal and a resize: two changes.
C21_Witness ==
    /\ pc = "total_trades"
    /\ "position" \in frame.cols
    /\ Col("position") = FSeq(<<1, -1, -2>>)
    /\ stats.total_trades = F(2)

\* C22 (as claimed): annual_return is the sum of the prepared pnl over bars
\* 1..N-1 (the first bar adding 0) divided by all N bars, times 365 * 100,
\* rounded to 2 decimals.
C22_AnnualReturnOverAllBars ==
    (pc = "analyzed" /\ IsBars(df) /\ result.metrics # GetEmptyMetrics) =>
        LET pnl == PrepareData(frame).col["pnl"]
            N == Len(pnl)
        IN  result.metrics.annual_return
              = Round(FMul(FMul(FDiv(SumRange(pnl, 2, N), F(N)), F(365)), F(100)), 2)

\* C23: with a transaction cost rate c, the net pnl at every bar t >= 1 is
\* position[t-1] * returns[t] - c * |position[t] - position[t-1]|; the cost
\* is zero at the first bar and at every bar where the position is
\* unchanged, and c times the size of the change where it changes.
C23_NetPnlChargesChanges ==
    pc = "v2_backtested" =>
        /\ \A t \in 2..frame.n :
              /\ Col("pnl")[t]
                   = FSub(FMul(Col("position")[t - 1], Col("returns")[t]),
                          FMul(strategy.transaction_cost,
                               FAbs(FSub(Col("position")[t], Col("position")[t - 1]))))
              /\ Col("position")[t] = Col("position")[t - 1]
                     => Col("transaction_costs")[t] = Zero
              /\ (Col("position")[t] # Col("position")[t - 1]
                     /\ strategy.transaction_cost # Zero)
                     => FGt(Col("transaction_costs")[t], Zero)
        /\ frame.n >= 1 => Col("transaction_costs")[1] = Zero

\* A backtest with a cost, a non-zero first bar, a bar where the position
\* is unchanged and a bar where it changes.
C23_Witness ==
    /\ pc = "v2_backtested"
    /\ strategy.transaction_cost = Norm(1, 4)
    /\ Col("position") = <<Norm(1, 2), Norm(1, 2), Zero>>
    /\ Col("close") = FSeq(<<1, 2, 1>>)
    /\ Col("pnl")[2] = Norm(1, 2)
    /\ Col("pnl")[3] = Norm(-3, 8)

\* The values a parameter takes in the combinations.
ValuesOf(name) == {param_combinations[c][name] : c \in Idx(param_combinations)}

\* The values start, start + step, ... that do not exceed stop.
WithinStop(r) ==
    {FAdd(r.start, FMul(F(k), r.step)) : k \in 0..(2 * MaxStop)}
        \cap {v \in {Norm(h, 2) : h \in 0..(6 * MaxStop)} : FLe(v, r.stop)}

\* C24 (as claimed): a (start, stop, step) range with step > 0 and
\* start <= stop expands to start, start + step, ... in increasing order,
\* every value within [start, stop]: stop is included when stop - start is
\* a multiple of step and no value exceeds stop.
C24_RangeWithinStop ==
    (pc = "combinations" /\ param_combinations # <<>>) =>
        /\ \A k \in Idx(param_ranges) :
              FLe(param_ranges[k].range.start, param_ranges[k].range.stop)
                  => ValuesOf(param_ranges[k].name) = WithinStop(param_ranges[k].range)
        /\ \A c \in 1..(Len(param_combinations) - 1) :
              \/ FLt(param_combinations[c]["window"],
                     param_combinations[c + 1]["window"])
              \/ /\ param_combinations[c]["window"] = param_combinations[c + 1]["window"]
                 /\ FLt(param_combinations[c]["threshold"],
                        param_combinations[c + 1]["threshold"])

\* The bars t >= 1 at which a non-zero position follows a non-zero position
\* of the other sign or of another size.
ReversalOrResizeBars ==
    {t \in 2..frame.n : /\ FNe(Col("position")[t], Zero)
                        /\ FNe(Col("position")[t - 1], Zero)
                        /\ Col("position")[t] # Col("position")[t - 1]}

\* C25: the segmenter changes state only on zero/non-zero transitions: the
\* number of resolved trades is the number of bars t >= 1 with position[t] = 0
\* and position[t-1] # 0, a reversal or resize inside a run neither closes
\* nor opens a trade (the trade's total runs on through it to the closing
\* bar), and a zero-position bar lies between two consecutive resolved trades.
C25_SegmenterOnZeroTransitions ==
    Segmented =>
        /\ Len(trade_pnls) = Cardinality(ExitBars(Col("position")))
        /\ \A k \in 1..Len(trade_pnls) :
              LET x == KthExit(Col("position"), k)
                  e == EntryOf(Col("position"), x)
              IN  /\ trade_pnls[k] = SumRange(Col("pnl"), e + 1, x)
                  /\ k > 1 => /\ KthExit(Col("position"), k - 1) < e
                              /\ FEq(Col("position")[KthExit(Col("position"), k - 1)], Zero)

\* One resolved trade whose run holds a direct reversal from 1 to -1.
C25_Witness ==
    /\ pc = "win_rate"
    /\ ReversalOrResizeBars = {2}
    /\ Col("position") = FSeq(<<1, -1, 0>>)
    /\ Col("close") = FSeq(<<1, 2, 1>>)
    /\ trade_pnls = <<Norm(3, 2)>>

\* C26: on a frame run_backtest prepared (gross lag-1 pnl), a resolved trade
\* entered from flat at a bar s >= 1 has pnl[s] = 0, so its recorded total
\* is the sum of pnl over the whole run and the exit bar; on a frame with
\* StrategyV2's net pnl the recorded total leaves out the entry bar's
\* pnl, which is minus the entry's transaction cost.
C26_EntryBarPnl ==
    pc \in {"gross_trades", "v2_trades"} =>
        /\ Len(trade_pnls) = Cardinality(ExitBars(Col("position")))
        /\ \A k \in 1..Len(trade_pnls) :
              LET x == KthExit(Col("position"), k)
                  s == EntryOf(Col("position"), x)
              IN  s >= 2 =>
                    IF pc = "gross_trades"
                    THEN /\ Col("pnl")[s] = Zero
                         /\ trade_pnls[k] = SumRange(Col("pnl"), s, x)
                    ELSE /\ Col("pnl")[s] = FNeg(Col("transaction_costs")[s])
                         /\ Col("transaction_costs")[s]
                              = FMul(strategy.transaction_cost, strategy.position_size)
                         /\ trade_pnls[k]
                              = FAdd(SumRange(Col("pnl"), s, x),
                                     Col("transaction_costs")[s])

\* A trade entered from flat at bar 1 and closed at bar 2, on the gross pnl.
C26_Witness ==
    /\ pc = "gross_trades"
    /\ Col("position") = FSeq(<<0, 1, 0>>)
    /\ Col("close") = FSeq(<<1, 1, 2>>)
    /\ Col("pnl")[2] = Zero
    /\ trade_pnls = <<One>>

\* The strategy with another transaction_cost, everything else the same.
WithTransactionCost(c) == [strategy EXCEPT !.transaction_cost = c]

\* The rows optimize_parameters collects for a strategy over the grid's
\* combinations.
RowsFor(st) ==
    {ResultRow(st, param_combinations[c])
        : c \in {c \in Idx(param_combinations) :
                    ~CombinationRaises(st, param_combinations[c])}}

\* C27: the rows of the optimization table do not depend on the strategy's
\* transaction_cost: an instance over the same data and position_size with
\* any other transaction_cost collects the same rows and returns the same
\* table, every combination being evaluated on the gross lag-1 pnl.
C27_TableIgnoresTransactionCost ==
    pc \in {"returned", "best"} =>
        \A c \in TransactionCosts \ {strategy.transaction_cost} :
            /\ {results_df[r] : r \in Idx(results_df)} = RowsFor(WithTransactionCost(c))
            /\ Len(results_df) = Len(results)

\* A table returned for a strategy with a transaction cost, holding a row
\* at whose parameters StrategyV2.backtest computes other metrics on the net pnl.
C27_Witness ==
    /\ pc = "returned"
    /\ strategy.transaction_cost = Norm(1, 4)
    /\ \E r \in Idx(results_df) :
          /\ FLt(results_df[r]["sharpe"], Zero)
          /\ CalculateAllMetrics(
                 V2BacktestFrame(strategy, results_df[r]["window"],
                                 results_df[r]["threshold"])).metrics.total_return
               # results_df[r]["total_return"]

\* The orders placed so far in the iteration.
PlacedOrders == {k \in Idx(calls) : calls[k].op = "place_market_order"}

\* C28: entry signals are evaluated, and an opening order can be placed,
\* only when the exchange reports no open position; when a position is
\* reported the iteration places at most one order, a reduce-only order
\* that closes the position (sell for a long, buy for a short).
C28_NoEntryOnOpenPosition ==
    /\ bot.entry_checked => bot.current_position = "none"
    /\ \A k \in PlacedOrders :
          ~calls[k].reduce_only => bot.current_position = "none" /\ pc = "exit"
    /\ (pc \in {"account_status", "entry", "exit"} /\ bot.current_position # "none") =>
          /\ Cardinality(PlacedOrders) <= 1
          /\ \A k \in PlacedOrders :
                /\ calls[k].reduce_only
                /\ calls[k].side
                     = IF bot.current_position = "long" THEN "sell" ELSE "buy"

\* An iteration over an open long position that placed its one order.
C28_Witness ==
    /\ pc = "exit"
    /\ bot.current_position = "long"
    /\ ~bot.entry_checked
    /\ Cardinality(PlacedOrders) = 1
    /\ calls[Len(calls)] = Order("sell", TRUE)

\* C29: with dry_run set the iteration makes no state-changing call to the
\* exchange, no place_market_order, set_leverage or set_margin_mode,
\* whatever the market data, the position and the other flags are: only
\* read calls are made.
C29_DryRunOnlyReads ==
    safety["dry_run"] =>
        \A k \in Idx(calls) :
            /\ calls[k].op \notin StateChanging
            /\ calls[k].op \in {"fetch_ohlcv", "fetch_balance", "fetch_positions"}

\* A dry run that went through the account setup and an entry signal.
C29_Witness ==
    /\ safety["dry_run"]
    /\ pc = "exit"
    /\ bot.entry_checked
    /\ ~safety["ignore_longs"]
    /\ CheckLongEntryCondition(candles[1], candles[2])
    /\ Len(calls) = 3

\* C30 (as claimed): ignore_longs disables long entries only: with
\* ignore_exits and dry_run false, an open long position whose long exit
\* condition holds is closed by a reduce-only sell order in the iteration,
\* whatever ignore_longs is; and with ignore_longs set no long entry order
\* is placed.
C30_IgnoreLongsOnlyEntries ==
    /\ (/\ pc = "exit"
        /\ bot.returned = "True"
        /\ bot.current_position = "long"
        /\ ~safety["ignore_exits"]
        /\ ~safety["dry_run"]
        /\ CheckLongExitCondition(candles[1], candles[2]))
          => \E k \in PlacedOrders : calls[k] = Order("sell", TRUE)
    /\ safety["ignore_longs"] =>
          \A k \in PlacedOrders : calls[k] # Order("buy", FALSE)

====
